---- MODULE Spec2Model ----
(***************************************************************************)
(* NoSyncFrameWrite: a Frame owns one byte buffer [rows][cols][data...],   *)
(* column-major, and Draw paints a rectangle with kColorWhite using        *)
(* worker threads that write disjoint column segments without locking.     *)
(* Source: src/NoSyncFrameWrite/main.cpp.                                   *)
(***************************************************************************)
EXTENDS Integers, Sequences, FiniteSets, TLC

\* ------------------------------------------------------------------ bounds
\* sizeof(size_t), in bytes, of the modelled machine (8 on the usual host).
SizeofSizeT == 2
\* Largest rows / cols passed to the constructor, and largest rect index.
MaxRows == 2
MaxCols == 3
\* Largest std::thread::hardware_concurrency() and requested thread_count.
MaxHw == 3
MaxThreadCount == 3
\* Number of Draw calls made on the frame in one behaviour.
MaxDraws == 2
\* Largest column span handed to PrepareSegments in the planner runs.
MaxPlanCols == 14
\* Largest row or column count paired with the largest frame it allows, and
\* largest column span of a rect, in the runs on frames near the word limit.
MaxThinDim == 3
MaxReachSpan == 256

\* --------------------------------------------------------------- constants
ByteMod == 256
kColorBlack == 255
kColorWhite == 0
kMaxUnitIndex == 8

\* ------------------------------------------------- size_t arithmetic (mod 2^w)
WordMod == ByteMod ^ SizeofSizeT

WAdd(a, b) == (a + b) % WordMod

WSub(a, b) == ((a - b) + WordMod) % WordMod

RECURSIVE WMul(_, _)
WMul(a, b) ==
    IF a = 0 THEN 0
    ELSE ((2 * WMul(a \div 2, b)) + ((a % 2) * b)) % WordMod

\* Mutant: the upper bound of the clamp ignores its second argument.
StdMin_First(a, b) == a

\* std::min(a, b)
StdMin(a, b) == IF b < a THEN b ELSE a

\* ------------------------------------------------------------ frame buffer
\* Mutant: only the first byte of the size_t is copied.
SizeTBytes_OneByte(n, len) == <<n % ByteMod>> \o [b \in 1..(len - 1) |-> 0]

\* memcpy(buffer, &n, sizeof(size_t)): the native (little-endian) bytes of n.
RECURSIVE SizeTBytes(_, _)
SizeTBytes(n, len) ==
    IF len = 0 THEN <<>>
    ELSE <<n % ByteMod>> \o SizeTBytes(n \div ByteMod, len - 1)

\* memcpy(&n, buffer, sizeof(size_t)): the size_t held in the bytes bs.
RECURSIVE BytesSizeT(_)
BytesSizeT(bs) ==
    IF bs = <<>> THEN 0
    ELSE Head(bs) + (ByteMod * BytesSizeT(Tail(bs)))

GetDataIndex == SizeofSizeT * 2

\* buffer_ == nullptr
NullBuffer == [isnull |-> TRUE, mem |-> <<>>]

\* Byte at offset off of the buffer (mem is 1-based).
ByteAt(buf, off) == buf.mem[off + 1]

GetRows(buf) ==
    IF buf.isnull THEN 0
    ELSE BytesSizeT(SubSeq(buf.mem, 1, SizeofSizeT))

GetCols(buf) ==
    IF buf.isnull THEN 0
    ELSE BytesSizeT(SubSeq(buf.mem, SizeofSizeT + 1, 2 * SizeofSizeT))

\* Mutant: the memset of the data region is left out (bytes read as 0).
Create_NoMemset(rows, cols, alloc_ok) ==
    IF rows <= 0 \/ cols <= 0 \/ ~alloc_ok THEN NullBuffer
    ELSE [isnull |-> FALSE,
          mem |-> SizeTBytes(rows, SizeofSizeT) \o SizeTBytes(cols, SizeofSizeT)
                  \o [o \in 1..WMul(cols, rows) |-> 0]]

\* Frame::Create; alloc_ok = FALSE is new char[] throwing std::bad_alloc.
Create(rows, cols, alloc_ok) ==
    IF rows <= 0 \/ cols <= 0 THEN NullBuffer
    ELSE LET buffer_size == WAdd(GetDataIndex, WMul(cols, rows))
             header == SizeTBytes(rows, SizeofSizeT) \o SizeTBytes(cols, SizeofSizeT)
         IN  IF ~alloc_ok THEN NullBuffer
             ELSE [isnull |-> FALSE,
                   mem |-> [o \in 1..buffer_size |->
                              IF o <= GetDataIndex THEN header[o]
                              ELSE kColorBlack]]

\* ------------------------------------------------------------------- rects
Rect(x1, y1, x2, y2) == [x1 |-> x1, y1 |-> y1, x2 |-> x2, y2 |-> y2]

\* Draw, line 117.
ColsToDraw(r) == WAdd(WSub(r.y2, r.y1), 1)

\* Draw, line 133: the argument of FormatCharCount.
CharCount(r) == WMul(WAdd(WSub(r.x2, r.x1), 1), WAdd(WSub(r.y2, r.y1), 1))

\* Mutant: rect.y2 is not compared with GetCols() - 1.
DrawSanityChecks_NoColsCheck(buf, r) ==
    /\ r.x1 >= 0 /\ r.y1 >= 0
    /\ r.x2 >= r.x1
    /\ r.y2 >= r.y1
    /\ r.x2 <= WSub(GetRows(buf), 1)
    /\ ~buf.isnull

DrawSanityChecks(buf, r) ==
    /\ r.x1 >= 0 /\ r.y1 >= 0
    /\ r.x2 >= r.x1
    /\ r.y2 >= r.y1
    /\ r.x2 <= WSub(GetRows(buf), 1)
    /\ r.y2 <= WSub(GetCols(buf), 1)
    /\ ~buf.isnull

\* ------------------------------------------------ Draw: before validation
\* std::clamp(v, lo, hi).  hi < lo breaks its precondition (undefined
\* behaviour): the library implementations return lo or hi.
StdClamp(v, lo, hi) ==
    IF hi < lo THEN {lo, hi}
    ELSE {IF v < lo THEN lo ELSE IF hi < v THEN hi ELSE v}

\* A library built with assertions aborts on clamp's broken precondition.
StdClampAborts(lo, hi) == hi < lo

RECURSIVE Log2Floor(_)
Log2Floor(n) == IF n <= 1 THEN 0 ELSE 1 + Log2Floor(n \div 2)

\* FormatCharCount's unit_index.  log2(0) is -inf, and converting it to int
\* is undefined: the usual targets give INT_MIN (kept here as -1), and 0
\* stands for a build where the conversion gives an index inside kUnits.
UnitIndex(char_count) ==
    IF char_count = 0 THEN {-1, 0}
    ELSE {StdMin(Log2Floor(char_count) \div 10, kMaxUnitIndex)}

\* kUnits.at(unit_index) throws std::out_of_range (unit_index == 0 skips it).
FormatCharCountThrows(unit_index) ==
    unit_index # 0 /\ unit_index \notin 0..kMaxUnitIndex

\* --------------------------------------------------------- PrepareSegments
\* Mutant: the remainder columns are given to no segment.
SegmentSizes_NoRemainder(cols_to_draw, n) ==
    [index \in 1..n |-> cols_to_draw \div n]

\* Mutant: the remainder columns go to the last segments, not the first.
SegmentSizes_RemainderLast(cols_to_draw, n) ==
    LET segment_size == cols_to_draw \div n
        remainder == cols_to_draw % n
    IN  [index \in 1..n |->
           IF (index - 1) >= n - remainder THEN WAdd(segment_size, 1)
           ELSE segment_size]

\* First loop (lines 216-221): segments[index].first holds the segment size.
SegmentSizes(cols_to_draw, n) ==
    LET segment_size == cols_to_draw \div n
        remainder == cols_to_draw % n
    IN  [index \in 1..n |->
           IF (index - 1) < remainder THEN WAdd(segment_size, 1)
           ELSE segment_size]

\* Mutant: a segment starts on the last column of the one before it.
RECURSIVE AdjustSegments_Overlap(_, _)
AdjustSegments_Overlap(sizes, temp) ==
    IF sizes = <<>> THEN <<>>
    ELSE LET second == WAdd(WSub(Head(sizes), 1), temp)
         IN  <<[first |-> IF temp = 0 THEN 0 ELSE temp - 1, second |-> second]>>
             \o AdjustSegments_Overlap(Tail(sizes), WAdd(second, 1))

\* Second loop (lines 225-230): from the sizes to (first, last) pairs.
RECURSIVE AdjustSegments(_, _)
AdjustSegments(sizes, temp) ==
    IF sizes = <<>> THEN <<>>
    ELSE LET second == WAdd(WSub(Head(sizes), 1), temp)
         IN  <<[first |-> temp, second |-> second]>>
             \o AdjustSegments(Tail(sizes), WAdd(second, 1))

PrepareSegments(cols_to_draw, n) ==
    AdjustSegments(SegmentSizes(cols_to_draw, n), 0)

\* -------------------------------------------------------------- DrawThread
\* Mutant: the column index is taken as absolute, rect.y1 is not added.
StartP_NoY1(r, index, rows) ==
    WAdd(WAdd(r.x1, WMul(index, rows)), GetDataIndex)

\* Mutant: GetDataIndex() is never added to start_p.
StartP_NoDataIndex(r, index, rows) ==
    WAdd(r.x1, WMul(WAdd(index, r.y1), rows))

\* start_p of column index (relative to rect.y1), lines 258-263.
StartP(r, index, rows) ==
    WAdd(WAdd(r.x1, WMul(WAdd(index, r.y1), rows)), GetDataIndex)

\* Mutant: the run of a column stops one byte short of rect.x2.
SizeForMemset_Short(r) ==
    IF r.x2 = r.x1 THEN 1 ELSE WSub(r.x2, r.x1)

\* size_for_memset, lines 260-261.
SizeForMemset(r) == WAdd(WSub(r.x2, r.x1), 1)

\* A worker about to run DrawThread(rect, segment): loop variable index and
\* position pos inside the current column's run.
NewWorker(segment) ==
    [segment |-> segment, index |-> segment.first, pos |-> 0,
     state |-> "unstarted"]

\* The loop condition of line 256.
LoopRuns(w) == w.index <= w.segment.second

\* Offset of the byte the worker writes next.
NextOffset(w, r, rows) == StartP(r, w.index, rows) + w.pos

\* The worker after writing one byte: next byte of the run, or next column.
Advance(w, r) ==
    LET next == IF w.pos + 1 >= SizeForMemset(r)
                THEN [w EXCEPT !.index = WAdd(w.index, 1), !.pos = 0]
                ELSE [w EXCEPT !.pos = w.pos + 1]
    IN  [next EXCEPT !.state = IF LoopRuns(next) THEN "running" ELSE "finished"]

\* Mutant: the byte is inverted instead of set to kColorWhite.
WriteByte_Invert(buf, off) ==
    IF off < Len(buf.mem)
    THEN [buf EXCEPT !.mem[off + 1] = kColorBlack - buf.mem[off + 1]]
    ELSE buf

\* buffer_[off] = kColorWhite; a write past the allocation is dropped here
\* and recorded by the caller.
WriteByte(buf, off) ==
    IF off < Len(buf.mem) THEN [buf EXCEPT !.mem[off + 1] = kColorWhite]
    ELSE buf

\* DrawThread run to completion by one thread: every byte of every column
\* index in segment.first..segment.second.
DrawThread(buf, r, segment) ==
    LET rows == GetRows(buf)
        offs == {StartP(r, index, rows) + p :
                   index \in segment.first..segment.second,
                   p \in 0..(SizeForMemset(r) - 1)}
    IN  [buf EXCEPT !.mem = [o \in 1..Len(buf.mem) |->
                               IF (o - 1) \in offs THEN kColorWhite
                               ELSE buf.mem[o]]]

\* ------------------------------------------------------------------- state
VARIABLES
    buffer_,                 \* Frame::buffer_: [isnull, mem]
    hw,                      \* std::thread::hardware_concurrency()
    ctor,                    \* the constructor's arguments [rows, cols]
    pc,                      \* where the thread that calls the Frame is
    call,                    \* the member function it is in or has just left
    rect,                    \* Draw's rect argument
    thread_count,            \* Draw's thread_count argument
    optimized_thread_count,  \* Draw's local of that name
    segments,                \* Draw's local vector of (first, second)
    workers,                 \* 1..M-1: the jthreads; M: the calling thread
    i,                       \* counter of the launch loop, then of the join loop
    result,                  \* how the call ended
    pre_buffer,              \* buffer_ when Draw was called
    written,                 \* offsets each worker of this Draw has written
    prev,                    \* <<rect>> of the Draw before, if it returned true
    draws,                   \* number of Draw calls so far
    oob,                     \* a write went past the allocation
    other,                   \* the other Frame of the process, when it has two
    painted                  \* rects of the Draws on this Frame that returned true

vars == <<buffer_, hw, ctor, pc, call, rect, thread_count,
          optimized_thread_count, segments, workers, i, result, pre_buffer,
          written, prev, draws, oob, other, painted>>

\* Arguments tried.
RowArgs == 0..MaxRows
ColArgs == 0..MaxCols
Rects == {Rect(x1, y1, x2, y2) : x1 \in 0..MaxRows, x2 \in 0..MaxRows,
                                  y1 \in 0..MaxCols, y2 \in 0..MaxCols}
ThreadCounts == 0..MaxThreadCount

NoRect == Rect(0, 0, 0, 0)

\* The process has one Frame only.
NoFrame == <<>>

\* The Frame after its constructor (rows drawn from row_args), on a machine
\* with some hardware concurrency; no member function has been called.
Constructed(row_args) ==
    /\ \E rows \in row_args, cols \in ColArgs, alloc_ok \in BOOLEAN :
          /\ ctor = [rows |-> rows, cols |-> cols]
          /\ buffer_ = Create(rows, cols, alloc_ok)
    /\ hw \in 0..MaxHw
    /\ pc = "idle"
    /\ call = "none"
    /\ rect = NoRect
    /\ thread_count = 0
    /\ optimized_thread_count = 0
    /\ segments = <<>>
    /\ workers = <<>>
    /\ i = 0
    /\ result = "none"
    /\ pre_buffer = buffer_
    /\ written = <<>>
    /\ prev = <<>>
    /\ draws = 0
    /\ oob = FALSE
    /\ other = NoFrame
    /\ painted = {}

Init == Constructed(RowArgs)

\* The thread enters DrawThread: first evaluation of the loop condition.
Start(w) == [w EXCEPT !.state = IF LoopRuns(w) THEN "running" ELSE "finished"]

\* What every Draw call has on entry.
Enter(r, k, m) ==
    /\ call' = "Draw"
    /\ rect' = r
    /\ thread_count' = k
    /\ optimized_thread_count' = m
    /\ pre_buffer' = buffer_
    /\ draws' = draws + 1
    /\ i' = 0

\* Draw leaves without having dispatched anything: it returns false, an
\* exception leaves it, or the process is aborted.
Leave(how) ==
    /\ pc' = IF how = "abort" THEN "aborted" ELSE "returned"
    /\ result' = how
    /\ segments' = <<>>
    /\ workers' = <<>>
    /\ written' = <<>>
    /\ UNCHANGED <<buffer_, oob>>

\* Draw, lines 146-169: the dispatch once the rect is accepted.
Dispatch(r, m) ==
    /\ result' = "none"
    /\ UNCHANGED <<buffer_, oob>>
    /\ IF m > 1
       THEN /\ segments' = PrepareSegments(ColsToDraw(r), m)
            /\ workers' = [t \in 1..m |-> NewWorker(segments'[t])]
            /\ written' = [t \in 1..m |-> {}]
            /\ pc' = "spawn"
       ELSE /\ segments' = <<>>
            /\ workers' = <<Start(NewWorker([first |-> 0, second |-> WSub(r.y2, r.y1)]))>>
            /\ written' = <<{}>>
            /\ pc' = "main"

\* Draw up to the dispatch, lines 117-144.
DrawCall(r, k) ==
    /\ pc = "idle"
    /\ draws < MaxDraws
    /\ UNCHANGED <<hw, ctor, prev, other, painted>>
    /\ LET hi == StdMin(ColsToDraw(r), hw)
       IN  \/ /\ StdClampAborts(1, hi)
              /\ Enter(r, k, 0)
              /\ Leave("abort")
           \/ \E m \in StdClamp(k, 1, hi), u \in UnitIndex(CharCount(r)) :
                /\ Enter(r, k, m)
                /\ IF FormatCharCountThrows(u) THEN Leave("out_of_range")
                   ELSE IF ~DrawSanityChecks(buffer_, r) THEN Leave("false")
                   ELSE Dispatch(r, m)

\* Mutant: the calling thread starts its own fill with the first launch.
Spawn_MainEarly ==
    /\ pc = "spawn"
    /\ workers' = [workers EXCEPT
                     ![i + 1] = Start(@),
                     ![Len(workers)] = Start(@)]
    /\ i' = i + 1
    /\ pc' = IF i + 1 >= optimized_thread_count - 1 THEN "main" ELSE "spawn"
    /\ UNCHANGED <<buffer_, hw, ctor, call, rect, thread_count,
                   optimized_thread_count, segments, result, pre_buffer,
                   written, prev, draws, oob, other, painted>>

\* One iteration of the launch loop, lines 154-159; after the last one the
\* calling thread enters DrawThread (line 162).
Spawn ==
    /\ pc = "spawn"
    /\ workers' = [workers EXCEPT
                     ![i + 1] = Start(@),
                     ![Len(workers)] =
                        IF i + 1 >= optimized_thread_count - 1 THEN Start(@) ELSE @]
    /\ i' = i + 1
    /\ pc' = IF i + 1 >= optimized_thread_count - 1 THEN "main" ELSE "spawn"
    /\ UNCHANGED <<buffer_, hw, ctor, call, rect, thread_count,
                   optimized_thread_count, segments, result, pre_buffer,
                   written, prev, draws, oob, other, painted>>

\* Worker t writes the next byte of its std::ranges::fill.
Fill(t) ==
    LET w == workers[t]
        off == NextOffset(w, rect, GetRows(buffer_))
    IN  /\ w.state = "running"
        /\ buffer_' = WriteByte(buffer_, off)
        /\ oob' = (oob \/ off >= Len(buffer_.mem))
        /\ written' = [written EXCEPT ![t] = @ \cup {off}]
        /\ workers' = [workers EXCEPT ![t] = Advance(w, rect)]

\* A launched jthread runs DrawThread(rect, segments[i]).
WorkerStep(t) ==
    /\ t < Len(workers)
    /\ Fill(t)
    /\ UNCHANGED <<hw, ctor, pc, call, rect, thread_count,
                   optimized_thread_count, segments, i, result, pre_buffer,
                   prev, draws, other, painted>>

\* The calling thread runs DrawThread itself, line 162 or line 168; with no
\* jthreads to join it then returns true.
MainStep ==
    /\ pc = "main"
    /\ Fill(Len(workers))
    /\ IF workers'[Len(workers)].state = "finished"
       THEN IF Len(workers) > 1
            THEN /\ pc' = "join" /\ i' = 0 /\ UNCHANGED result
            ELSE /\ pc' = "returned" /\ i' = i /\ result' = "true"
       ELSE UNCHANGED <<pc, i, result>>
    /\ UNCHANGED <<hw, ctor, call, rect, thread_count, optimized_thread_count,
                   segments, pre_buffer, prev, draws, other, painted>>

\* Mutant: the jthreads are not waited for.
Join_NoWait ==
    /\ pc = "join"
    /\ i' = i + 1
    /\ IF i + 1 >= Len(workers) - 1
       THEN /\ pc' = "returned" /\ result' = "true"
       ELSE UNCHANGED <<pc, result>>
    /\ UNCHANGED <<buffer_, hw, ctor, call, rect, thread_count,
                   optimized_thread_count, segments, workers, pre_buffer,
                   written, prev, draws, oob, other, painted>>

\* Mutant: join() comes back only for a thread that was joined before.
Join_Blocks ==
    /\ pc = "join"
    /\ workers[i + 1].state = "joined"
    /\ i' = i + 1
    /\ IF i + 1 >= Len(workers) - 1
       THEN /\ pc' = "returned" /\ result' = "true"
       ELSE UNCHANGED <<pc, result>>
    /\ UNCHANGED <<buffer_, hw, ctor, call, rect, thread_count,
                   optimized_thread_count, segments, workers, pre_buffer,
                   written, prev, draws, oob, other, painted>>

\* thread.join() of the loop at lines 164-166; after the last one Draw
\* returns true.
Join ==
    /\ pc = "join"
    /\ workers[i + 1].state = "finished"
    /\ workers' = [workers EXCEPT ![i + 1].state = "joined"]
    /\ i' = i + 1
    /\ IF i + 1 >= Len(workers) - 1
       THEN /\ pc' = "returned" /\ result' = "true"
       ELSE UNCHANGED <<pc, result>>
    /\ UNCHANGED <<buffer_, hw, ctor, call, rect, thread_count,
                   optimized_thread_count, segments, pre_buffer, written,
                   prev, draws, oob, other, painted>>

\* Frame::PrintFrame, lines 179-199: its return value.
PrintFrame ==
    /\ pc = "idle"
    /\ call' = "PrintFrame"
    /\ pc' = "returned"
    /\ result' = IF buffer_.isnull THEN "false" ELSE "true"
    /\ UNCHANGED <<buffer_, hw, ctor, rect, thread_count,
                   optimized_thread_count, segments, workers, i, pre_buffer,
                   written, prev, draws, oob, other, painted>>

\* The caller goes on after the call: Draw's arguments and locals are gone.
Return ==
    /\ pc = "returned"
    /\ pc' = "idle"
    /\ call' = "none"
    /\ prev' = IF call = "Draw"
               THEN (IF result = "true" THEN <<rect>> ELSE <<>>)
               ELSE prev
    /\ rect' = NoRect
    /\ thread_count' = 0
    /\ optimized_thread_count' = 0
    /\ segments' = <<>>
    /\ workers' = <<>>
    /\ i' = 0
    /\ result' = "none"
    /\ pre_buffer' = buffer_
    /\ written' = <<>>
    /\ painted' = IF call = "Draw" /\ result = "true"
                  THEN painted \cup {rect}
                  ELSE painted
    /\ UNCHANGED <<buffer_, hw, ctor, draws, oob, other>>

Next ==
    \/ \E r \in Rects, k \in ThreadCounts : DrawCall(r, k)
    \/ Spawn
    \/ \E t \in 1..Len(workers) : WorkerStep(t)
    \/ MainStep
    \/ Join
    \/ PrintFrame
    \/ Return

Spec == Init /\ [][Next]_vars

\* The operating system keeps scheduling every thread that can run: each
\* launched jthread and the calling thread (launch loop, its own fill, joins).
\* Nothing obliges the caller to make a further call.
Fairness ==
    /\ WF_vars(Spawn)
    /\ \A t \in 1..MaxHw : WF_vars(WorkerStep(t))
    /\ WF_vars(MainStep)
    /\ WF_vars(Join)

SpecFair == Spec /\ Fairness

\* ------------------------------------------- construction runs (SpecCreate)
\* Row counts around the point where the first byte of the size_t is full.
WideRowArgs == RowArgs \cup {ByteMod - 1, ByteMod, ByteMod + 1}

InitCreate == Constructed(WideRowArgs)

\* The frame is constructed and then only read.
NextCreate ==
    \/ PrintFrame
    \/ Return

SpecCreate == InitCreate /\ [][NextCreate]_vars

\* ------------------------------------------------- planner runs (SpecPlan)
\* PrepareSegments(cols_to_draw, segments) applied to a vector of n pairs;
\* rect keeps the span as (0, 0, 0, cols_to_draw - 1).
PlanCall(cols_to_draw, n) ==
    /\ pc = "plan"
    /\ rect' = Rect(0, 0, 0, cols_to_draw - 1)
    /\ optimized_thread_count' = n
    /\ segments' = PrepareSegments(cols_to_draw, n)
    /\ UNCHANGED <<buffer_, hw, ctor, pc, call, thread_count, workers, i,
                   result, pre_buffer, written, prev, draws, oob, other, painted>>

InitPlan ==
    /\ ctor = [rows |-> 0, cols |-> 0]
    /\ buffer_ = NullBuffer
    /\ hw = 1
    /\ pc = "plan"
    /\ call = "none"
    /\ rect = NoRect
    /\ thread_count = 0
    /\ optimized_thread_count = 0
    /\ segments = <<>>
    /\ workers = <<>>
    /\ i = 0
    /\ result = "none"
    /\ pre_buffer = NullBuffer
    /\ written = <<>>
    /\ prev = <<>>
    /\ draws = 0
    /\ oob = FALSE
    /\ other = NoFrame
    /\ painted = {}

NextPlan ==
    \E cols_to_draw \in 1..MaxPlanCols, n \in 1..MaxPlanCols :
        n <= cols_to_draw /\ PlanCall(cols_to_draw, n)

SpecPlan == InitPlan /\ [][NextPlan]_vars

\* ------------------------------- frames near the word limit (SpecReach)
\* Largest rows*cols for which GetDataIndex() + cols*rows does not wrap.
MaxCells == (WordMod - 1) - GetDataIndex

\* <<rows, cols>> of the frames built: thin ones and square ones whose size
\* is as close to the word limit as the shape allows.
ReachDims ==
    {<<d, MaxCells \div d>> : d \in 1..MaxThinDim}
    \cup {<<MaxCells \div d, d>> : d \in 1..MaxThinDim}
    \cup {<<ByteMod - 1, ByteMod>>, <<ByteMod, ByteMod - 1>>}

\* Indices tried along an axis of n cells: both ends, and just past the end.
EdgeIndices(n) == {v \in {0, 1, n - 2, n - 1, n} : v >= 0}

\* What Create leaves in the first GetDataIndex() bytes (lines 289-290); the
\* data bytes of these frames are not kept in the state.
HeaderBuffer(rows, cols) ==
    [isnull |-> FALSE,
     mem |-> SizeTBytes(rows, SizeofSizeT) \o SizeTBytes(cols, SizeofSizeT)]

\* Offsets of the first and of the last byte of every run DrawThread fills
\* for the segment (lines 256-269).
RunEnds(r, segment, rows) ==
    {StartP(r, index, rows) + p :
        index \in segment.first..segment.second,
        p \in {0, SizeForMemset(r) - 1}}

\* The first Draw(r, .), with m workers, on a frame of dims[1] x dims[2]:
\* from the validation to the return, all workers run to completion.
ReachCall(dims, r, m) ==
    /\ pc = "reach"
    /\ draws = 0
    /\ DrawSanityChecks(HeaderBuffer(dims[1], dims[2]), r)
    /\ ColsToDraw(r) <= MaxReachSpan
    /\ m <= ColsToDraw(r)
    /\ ctor' = [rows |-> dims[1], cols |-> dims[2]]
    /\ buffer_' = HeaderBuffer(dims[1], dims[2])
    /\ rect' = r
    /\ optimized_thread_count' = m
    /\ segments' = IF m > 1 THEN PrepareSegments(ColsToDraw(r), m)
                   ELSE <<[first |-> 0, second |-> WSub(r.y2, r.y1)]>>
    /\ written' = [t \in 1..m |-> RunEnds(r, segments'[t], dims[1])]
    /\ draws' = 1
    /\ UNCHANGED <<hw, pc, call, thread_count, workers, i, result,
                   pre_buffer, prev, oob, other, painted>>

InitReach ==
    /\ ctor = [rows |-> 0, cols |-> 0]
    /\ buffer_ = NullBuffer
    /\ hw = MaxHw
    /\ pc = "reach"
    /\ call = "none"
    /\ rect = NoRect
    /\ thread_count = 0
    /\ optimized_thread_count = 0
    /\ segments = <<>>
    /\ workers = <<>>
    /\ i = 0
    /\ result = "none"
    /\ pre_buffer = NullBuffer
    /\ written = <<>>
    /\ prev = <<>>
    /\ draws = 0
    /\ oob = FALSE
    /\ other = NoFrame
    /\ painted = {}

NextReach ==
    \E dims \in ReachDims, m \in 1..MaxHw :
        \E x1 \in EdgeIndices(dims[1]), x2 \in EdgeIndices(dims[1]),
           y1 \in EdgeIndices(dims[2]), y2 \in EdgeIndices(dims[2]) :
            ReachCall(dims, Rect(x1, y1, x2, y2), m)

SpecReach == InitReach /\ [][NextReach]_vars

\* ------------------------------ frames past the word limit (SpecWrap)
\* <<rows, cols>> whose product is 2^w or more, so that cols * rows wraps,
\* and for which GetDataIndex() + (cols * rows) does not wrap again.
WrapDims ==
    {<<WordMod \div ByteMod, ByteMod>>,
     <<(WordMod \div ByteMod) + 1, ByteMod>>,
     <<WordMod \div 2, 2>>,
     <<2, WordMod \div 2>>}

\* Frame(rows, cols) has been constructed with such dimensions; new char[]
\* did not throw.
InitWrap ==
    /\ \E dims \in WrapDims :
          /\ ctor = [rows |-> dims[1], cols |-> dims[2]]
          /\ buffer_ = Create(dims[1], dims[2], TRUE)
    /\ hw = MaxHw
    /\ pc = "idle"
    /\ call = "none"
    /\ rect = NoRect
    /\ thread_count = 0
    /\ optimized_thread_count = 0
    /\ segments = <<>>
    /\ workers = <<>>
    /\ i = 0
    /\ result = "none"
    /\ pre_buffer = buffer_
    /\ written = <<>>
    /\ prev = <<>>
    /\ draws = 0
    /\ oob = FALSE
    /\ other = NoFrame
    /\ painted = {}

SpecWrap == InitWrap /\ [][Next]_vars

\* ---------------------------------------------- two Frames (SpecTwo)
\* The members and the call state of the Frame the model is stepping.
ThisFrame ==
    [buffer_ |-> buffer_, ctor |-> ctor, pc |-> pc, call |-> call,
     rect |-> rect, thread_count |-> thread_count,
     optimized_thread_count |-> optimized_thread_count,
     segments |-> segments, workers |-> workers, i |-> i, result |-> result,
     pre_buffer |-> pre_buffer, written |-> written, prev |-> prev,
     draws |-> draws]

\* The call state of frame f becomes the one the model steps.
Resume(f) ==
    /\ ctor' = f.ctor
    /\ pc' = f.pc
    /\ call' = f.call
    /\ rect' = f.rect
    /\ thread_count' = f.thread_count
    /\ optimized_thread_count' = f.optimized_thread_count
    /\ segments' = f.segments
    /\ workers' = f.workers
    /\ i' = f.i
    /\ result' = f.result
    /\ written' = f.written
    /\ prev' = f.prev
    /\ draws' = f.draws

\* Mutant: buffer_ is one buffer for all Frames, as a static member would be.
Switch_SharedBuffer ==
    /\ other # NoFrame
    /\ pc # "aborted"
    /\ Resume(other)
    /\ UNCHANGED buffer_
    /\ pre_buffer' = other.pre_buffer
    /\ other' = ThisFrame
    /\ UNCHANGED <<hw, oob, painted>>

\* The scheduler runs a thread of the other Frame's Draw: each Frame object
\* has its own buffer_ (line 345) and its own Draw locals.
Switch ==
    /\ other # NoFrame
    /\ pc # "aborted"
    /\ Resume(other)
    /\ buffer_' = other.buffer_
    /\ pre_buffer' = other.pre_buffer
    /\ other' = ThisFrame
    /\ UNCHANGED <<hw, oob, painted>>

\* Two Frames have been constructed: one of a single row, the other of
\* MaxRows x MaxCols; no member function has been called.
InitTwo ==
    /\ \E rows \in {1}, cols \in 1..MaxCols :
          /\ ctor = [rows |-> rows, cols |-> cols]
          /\ buffer_ = Create(rows, cols, TRUE)
    /\ hw \in 0..MaxHw
    /\ pc = "idle"
    /\ call = "none"
    /\ rect = NoRect
    /\ thread_count = 0
    /\ optimized_thread_count = 0
    /\ segments = <<>>
    /\ workers = <<>>
    /\ i = 0
    /\ result = "none"
    /\ pre_buffer = buffer_
    /\ written = <<>>
    /\ prev = <<>>
    /\ draws = 0
    /\ oob = FALSE
    /\ painted = {}
    /\ LET b == Create(MaxRows, MaxCols, TRUE)
       IN  other = [buffer_ |-> b,
                    ctor |-> [rows |-> MaxRows, cols |-> MaxCols],
                    pc |-> "idle", call |-> "none", rect |-> NoRect,
                    thread_count |-> 0, optimized_thread_count |-> 0,
                    segments |-> <<>>, workers |-> <<>>, i |-> 0,
                    result |-> "none", pre_buffer |-> b, written |-> <<>>,
                    prev |-> <<>>, draws |-> 0]

\* Each Frame gets one Draw, of a rect inside it; the threads of the two
\* calls run in any order.
NextTwo ==
    \/ \E r \in Rects, k \in ThreadCounts :
          draws = 0 /\ DrawSanityChecks(buffer_, r) /\ DrawCall(r, k)
    \/ Spawn
    \/ \E t \in 1..Len(workers) : WorkerStep(t)
    \/ MainStep
    \/ Join
    \/ Switch

SpecTwo == InitTwo /\ [][NextTwo]_vars

\* ------------------------------------------------------ claim vocabulary
\* Draw has returned true to its caller, which has not gone on yet.
DrawReturnedTrue == pc = "returned" /\ call = "Draw" /\ result = "true"

\* The rect satisfies x1 <= x2 < rows and y1 <= y2 < cols of the frame.
RectValid(r) ==
    /\ r.x1 <= r.x2 /\ r.x2 < ctor.rows
    /\ r.y1 <= r.y2 /\ r.y2 < ctor.cols

InRect(r, x, y) == r.x1 <= x /\ x <= r.x2 /\ r.y1 <= y /\ y <= r.y2

\* Cell (x, y) of a non-null buffer: byte offset H + x + y*rows.
Cell(buf, x, y) == ByteAt(buf, GetDataIndex + x + (y * ctor.rows))

Cells == {<<x, y>> : x \in 0..(ctor.rows - 1), y \in 0..(ctor.cols - 1)}

\* ---------------------------------------------------------------- claims
\* C1: once Draw(R, k) has returned true, whatever k and the interleaving of
\* its workers, every cell inside R is 0x00 and every cell outside R has the
\* value it had when Draw was called.
C1_DrawPaintsExactlyRect ==
    DrawReturnedTrue =>
        /\ ~buffer_.isnull
        /\ RectValid(rect)
        /\ \A c \in Cells :
              Cell(buffer_, c[1], c[2]) =
                 IF InRect(rect, c[1], c[2]) THEN kColorWhite
                 ELSE Cell(pre_buffer, c[1], c[2])

\* A two-worker Draw, asked for more workers than the rect has columns, has
\* returned true on a frame that had a white cell outside the rect.
C1_Witness ==
    /\ DrawReturnedTrue
    /\ Len(workers) = 2
    /\ thread_count > ColsToDraw(rect)
    /\ \E c \in Cells : /\ ~InRect(rect, c[1], c[2])
                        /\ Cell(pre_buffer, c[1], c[2]) = kColorWhite

\* What worker t has written or is about to write.
Touches(t) ==
    written[t] \cup
       (IF workers[t].state \in {"unstarted", "running"} /\ LoopRuns(workers[t])
        THEN {NextOffset(workers[t], rect, GetRows(buffer_))}
        ELSE {})

\* C2: no byte is written, or about to be written, by two different workers
\* of the same Draw.
C2_WorkersDisjoint ==
    (call = "Draw" /\ Len(workers) > 1) =>
        \A a \in DOMAIN workers, b \in DOMAIN workers :
            a # b => Touches(a) \cap Touches(b) = {}

\* A jthread and the calling thread have both written and are both still
\* writing.
C2_Witness ==
    /\ call = "Draw"
    /\ Len(workers) > 1
    /\ \E a \in DOMAIN workers : /\ a < Len(workers)
                                 /\ workers[a].state = "running"
                                 /\ written[a] # {}
    /\ workers[Len(workers)].state = "running"
    /\ written[Len(workers)] # {}

\* C3: when Draw has returned, every jthread it launched has been joined after
\* finishing, no worker has a write left, and the caller reads 0x00 in every
\* painted cell.
C3_NoWorkerOutlivesDraw ==
    DrawReturnedTrue =>
        /\ \A t \in DOMAIN workers :
              /\ ~LoopRuns(workers[t])
              /\ workers[t].state = IF t < Len(workers) THEN "joined" ELSE "finished"
        /\ \A c \in Cells :
              InRect(rect, c[1], c[2]) => Cell(buffer_, c[1], c[2]) = kColorWhite

\* Draw has returned true after launching two jthreads.
C3_Witness == DrawReturnedTrue /\ Len(workers) = 3

\* C4: for a given content and rect the buffer after Draw is the one the
\* single-threaded fill (k = 1: DrawThread over the whole span on the calling
\* thread) produces, for every k and interleaving.
C4_SameAsSingleThread ==
    DrawReturnedTrue =>
        buffer_ = DrawThread(pre_buffer, rect,
                             [first |-> 0, second |-> WSub(rect.y2, rect.y1)])

\* A two-worker Draw over three columns (uneven segments) has returned.
C4_Witness ==
    /\ DrawReturnedTrue
    /\ Len(workers) = 2
    /\ ColsToDraw(rect) = 3
    /\ thread_count = 2

\* C5: for every rect that is not valid, and every thread_count, Draw returns
\* false, launches no worker and leaves the buffer as it was.  Stated for
\* the calls that come back to their caller, on a Frame that has its buffer
\* and a machine whose hardware concurrency is at least 1.
C5_InvalidRectReturnsFalse ==
    (pc = "returned" /\ call = "Draw" /\ hw >= 1 /\ ~buffer_.isnull
       /\ ~RectValid(rect)) =>
        /\ result = "false"
        /\ workers = <<>>
        /\ buffer_ = pre_buffer

\* C6: a Frame constructed with rows = 0 or cols = 0 has no buffer, reports 0
\* rows and 0 cols, and on it every Draw returns false without a write or a
\* worker and PrintFrame returns false.  Stated for the calls that come back
\* to their caller on a machine whose hardware concurrency is at least 1.
C6_ZeroFrameFailsCleanly ==
    ((ctor.rows = 0 \/ ctor.cols = 0) /\ hw >= 1) =>
        /\ buffer_.isnull
        /\ GetRows(buffer_) = 0
        /\ GetCols(buffer_) = 0
        /\ workers = <<>>
        /\ buffer_ = pre_buffer
        /\ pc = "returned" => result = "false"

\* C7: right after a construction that succeeded, the header decodes to the
\* constructor's arguments and every data cell is 0xFF.
C7_FreshFrame ==
    (draws = 0 /\ ~buffer_.isnull) =>
        /\ ctor.rows >= 1 /\ ctor.cols >= 1
        /\ GetRows(buffer_) = ctor.rows
        /\ GetCols(buffer_) = ctor.cols
        /\ Len(buffer_.mem) = GetDataIndex + (ctor.rows * ctor.cols)
        /\ \A c \in Cells : Cell(buffer_, c[1], c[2]) = kColorBlack

\* A frame whose row count needs both bytes of its size_t, and with more than
\* one column, has just been constructed.
C7_Witness ==
    /\ draws = 0
    /\ pc = "idle"
    /\ ~buffer_.isnull
    /\ ctor.rows >= ByteMod
    /\ ctor.cols > 1

\* Width of segment k.
SegWidth(seg) == (seg.second - seg.first) + 1

\* C8: for 1 <= N <= W, PrepareSegments gives N non-empty segments, the first
\* starting at 0, each next one right after the one before, the last ending
\* at W - 1, the first W mod N of width ceil(W/N) and the others floor(W/N).
C8_PlannerCover ==
    (pc = "plan" /\ segments # <<>>) =>
        LET W == rect.y2 + 1
            N == optimized_thread_count
        IN  /\ Len(segments) = N
            /\ segments[1].first = 0
            /\ segments[N].second = W - 1
            /\ \A k \in 2..N : segments[k].first = segments[k - 1].second + 1
            /\ \A k \in 1..N :
                  /\ segments[k].first <= segments[k].second
                  /\ SegWidth(segments[k]) =
                        IF k <= W % N
                        THEN (W + N - 1) \div N
                        ELSE W \div N
            /\ (W = 13 /\ N = 2) =>
                  segments = <<[first |-> 0, second |-> 6],
                               [first |-> 7, second |-> 12]>>
            /\ (W = 13 /\ N = 4) =>
                  segments = <<[first |-> 0, second |-> 3],
                               [first |-> 4, second |-> 6],
                               [first |-> 7, second |-> 9],
                               [first |-> 10, second |-> 12]>>

\* The planner has split 13 columns into 4 segments.
C8_Witness ==
    /\ pc = "plan"
    /\ rect.y2 = 12
    /\ optimized_thread_count = 4
    /\ Len(segments) = 4

\* clamp(k, 1, hi) as the specification writes it.
Clamped(k, hi) == IF k < 1 THEN 1 ELSE IF k > hi THEN hi ELSE k

\* C9: with hardware concurrency >= 1, a Draw of a valid rect uses
\* clamp(k, 1, min(y2 - y1 + 1, hw)) workers (jthreads plus the calling
\* thread); the planner gets no more segments than columns and no segment is
\* empty.
C9_EffectiveWorkerCount ==
    (hw >= 1 /\ call = "Draw" /\ (pc \in {"spawn", "main", "join"} \/ DrawReturnedTrue)) =>
        LET span == (rect.y2 - rect.y1) + 1
            M == Clamped(thread_count, IF span < hw THEN span ELSE hw)
        IN  /\ Len(workers) = M
            /\ DrawReturnedTrue =>
                  Cardinality({t \in DOMAIN workers : written[t] # {}}) = M
            /\ Len(segments) <= span
            /\ \A s \in DOMAIN segments : segments[s].first <= segments[s].second

\* A Draw asked for more workers than the hardware has, and given two, has
\* returned.
C9_Witness ==
    /\ DrawReturnedTrue
    /\ hw = 2
    /\ thread_count > hw
    /\ ColsToDraw(rect) > hw
    /\ Len(workers) = 2

\* C10: a Draw over the rect of the Draw that returned true just before it
\* leaves the buffer as that Draw left it.
C10_Idempotent ==
    (DrawReturnedTrue /\ prev = <<rect>>) => buffer_ = pre_buffer

\* The second of two Draws over the same rect, run by two workers, has
\* returned.
C10_Witness ==
    /\ DrawReturnedTrue
    /\ prev = <<rect>>
    /\ Len(workers) = 2

\* The bytes of the header a Frame(rows, cols) is constructed with.
HeaderOf(rows, cols) ==
    SizeTBytes(rows, SizeofSizeT) \o SizeTBytes(cols, SizeofSizeT)

\* C11: in every reachable state, whatever Draw and PrintFrame calls were made
\* and however their workers interleave, the header holds the bytes it was
\* constructed with, GetRows() and GetCols() return the construction-time
\* values (0 and 0 on a Frame without buffer), and no worker has written or is
\* about to write a byte below the data index H.
C11_HeaderImmutable ==
    /\ GetRows(buffer_) = (IF buffer_.isnull THEN 0 ELSE ctor.rows)
    /\ GetCols(buffer_) = (IF buffer_.isnull THEN 0 ELSE ctor.cols)
    /\ ~buffer_.isnull =>
          SubSeq(buffer_.mem, 1, GetDataIndex) = HeaderOf(ctor.rows, ctor.cols)
    /\ \A t \in DOMAIN workers : \A off \in Touches(t) : off >= GetDataIndex
    /\ buffer_.isnull = pre_buffer.isnull

\* The second Draw on a frame, run by two workers over a rect that starts at
\* cell (0, 0), the byte right after the header, has returned true.
C11_Witness ==
    /\ DrawReturnedTrue
    /\ draws = 2
    /\ Len(workers) = 2
    /\ rect.x1 = 0 /\ rect.y1 = 0
    /\ GetDataIndex \in written[1]

\* Frame f holds what its Draw alone makes of it: a byte differs from the one
\* at Draw's entry only if a worker of f's own Draw wrote it, and once Draw
\* has returned true the buffer is the single-threaded fill of f's rect.
AsIfAlone(f) ==
    /\ Len(f.buffer_.mem) = Len(f.pre_buffer.mem)
    /\ \A o \in DOMAIN f.buffer_.mem :
          f.buffer_.mem[o] # f.pre_buffer.mem[o] =>
              \E t \in DOMAIN f.written : (o - 1) \in f.written[t]
    /\ (f.call = "Draw" /\ f.pc = "returned" /\ f.result = "true") =>
          f.buffer_ = DrawThread(f.pre_buffer, f.rect,
                                 [first |-> 0,
                                  second |-> WSub(f.rect.y2, f.rect.y1)])

\* C12: with one Draw running on each of two Frames, under every
\* interleaving of their threads, no Frame's buffer holds a byte written by
\* the other Frame's Draw, no write leaves an allocation, and each Frame ends
\* with the content its Draw gives it when run alone.
C12_FramesIndependent ==
    other # NoFrame =>
        /\ AsIfAlone(ThisFrame)
        /\ AsIfAlone(other)
        /\ ~oob

\* A two-worker Draw on one Frame has returned true while a worker of the
\* Draw on the other Frame, which has written already, is still running.
C12_Witness ==
    /\ other # NoFrame
    /\ DrawReturnedTrue
    /\ Len(workers) = 2
    /\ other.call = "Draw"
    /\ \E t \in DOMAIN other.workers :
          other.workers[t].state = "running" /\ other.written[t] # {}

\* Draw is past its validation and has not returned yet.
Dispatched == call = "Draw" /\ pc \in {"spawn", "main", "join"}

\* C13: under fair scheduling of the jthreads and of the calling thread,
\* every Draw that was dispatched, for every rect and worker count,
\* eventually returns true with every worker's column loop finished and every
\* jthread joined; it does not stay at a join for ever.
C13_DrawTerminates ==
    Dispatched ~>
        (DrawReturnedTrue /\ \A t \in DOMAIN workers :
                                workers[t].state \in {"finished", "joined"})

\* Draw waits at its first join for a jthread that is still filling, the
\* calling thread having finished its own segment.
C13_Witness ==
    /\ call = "Draw"
    /\ pc = "join"
    /\ i = 0
    /\ Len(workers) = 3
    /\ workers[1].state = "running"

\* The jthreads of the current Draw that have been launched.
Launched == {t \in 1..(Len(workers) - 1) : workers[t].state # "unstarted"}

\* C14: in a Draw past its validation, with M the effective worker count:
\* if M = 1 there is no jthread and the calling thread fills segment
\* (0, y2 - y1); if M > 1 the planner made M segments, worker i (jthreads
\* 1..M-1 in launch order, then the calling thread) fills segment i, no more
\* than M - 1 jthreads are launched and all of them are when the launch loop
\* is over, the calling thread starts its fill only when all M - 1 are
\* launched, and no join is made before the calling thread's fill is finished.
C14_DispatchProtocol ==
    (Dispatched \/ DrawReturnedTrue) =>
        LET M == optimized_thread_count
        IN  /\ M = 1 =>
                  /\ Len(workers) = 1
                  /\ segments = <<>>
                  /\ workers[1].segment =
                        [first |-> 0, second |-> rect.y2 - rect.y1]
                  /\ workers[1].state # "unstarted"
                  /\ pc \in {"main", "returned"}
            /\ M > 1 =>
                  /\ Len(workers) = M
                  /\ segments = PrepareSegments((rect.y2 - rect.y1) + 1, M)
                  /\ \A t \in 1..M : workers[t].segment = segments[t]
                  /\ Launched = 1..(IF pc = "spawn" THEN i ELSE M - 1)
                  /\ workers[M].state # "unstarted" <=> pc # "spawn"
                  /\ pc = "main" => \A t \in 1..M : workers[t].state # "joined"
                  /\ pc \in {"join", "returned"} => workers[M].state = "finished"
                  /\ pc = "join" =>
                        \A t \in 1..(M - 1) : workers[t].state = "joined" <=> t <= i
                  /\ \A t \in 1..M : workers[t].state = "unstarted" => written[t] = {}

\* A Draw with M = 3 has joined its first jthread and waits for the second,
\* which is still filling.
C14_Witness ==
    /\ call = "Draw"
    /\ pc = "join"
    /\ optimized_thread_count = 3
    /\ i = 1
    /\ workers[1].state = "joined"
    /\ workers[2].state = "running"

\* C15: on a machine that reports hardware concurrency 0, a Draw of a valid
\* rect on a Frame that has its buffer, whatever thread_count is, goes on as
\* with hardware concurrency 1: one worker, the calling thread, no jthread,
\* no planner call, and it returns true with the whole rect painted.
C15_ZeroHardwareAsOne ==
    (hw = 0 /\ call = "Draw" /\ ~buffer_.isnull /\ RectValid(rect)) =>
        /\ pc \in {"main", "returned"}
        /\ Len(workers) = 1
        /\ segments = <<>>
        /\ pc = "returned" =>
              /\ result = "true"
              /\ \A c \in Cells :
                    InRect(rect, c[1], c[2]) =>
                        Cell(buffer_, c[1], c[2]) = kColorWhite

\* The offsets H + x + (y1 + j)*rows, x1 <= x <= x2, first <= j <= last, as
\* integers, for the current rect and the frame's row count.
SegmentOffsets(segment) ==
    {GetDataIndex + x + ((rect.y1 + j) * ctor.rows) :
        x \in rect.x1..rect.x2, j \in segment.first..segment.second}

\* C16: a fill worker run with the rect R of its Draw and segment
\* (first, last) writes inside the offsets H + x + (y1 + j)*rows with
\* x1 <= x <= x2, first <= j <= last only, has written every one of them
\* when its loop is over, every byte it wrote holds 0x00, and no byte of the
\* buffer changes that no worker wrote.
C16_FillWritesItsSegment ==
    (Dispatched \/ DrawReturnedTrue) =>
        /\ \A t \in DOMAIN workers :
              /\ written[t] \subseteq SegmentOffsets(workers[t].segment)
              /\ workers[t].state \in {"finished", "joined"} =>
                    written[t] = SegmentOffsets(workers[t].segment)
              /\ \A off \in written[t] : ByteAt(buffer_, off) = kColorWhite
        /\ \A o \in DOMAIN buffer_.mem :
              buffer_.mem[o] # pre_buffer.mem[o] =>
                  \E t \in DOMAIN workers : (o - 1) \in written[t]

\* A worker has finished a segment of two columns of a rect that starts
\* after column 0 and spans two rows, while black cells remain outside.
C16_Witness ==
    /\ call = "Draw"
    /\ rect.y1 > 0
    /\ rect.x2 > rect.x1
    /\ \E t \in DOMAIN workers :
          /\ workers[t].state = "finished"
          /\ workers[t].segment.second > workers[t].segment.first
    /\ \E c \in Cells : Cell(buffer_, c[1], c[2]) = kColorBlack

\* Cell (x, y) lies inside a rect whose Draw on this Frame returned true.
InPainted(x, y) == \E r \in painted : InRect(r, x, y)

\* C17: between calls, after any sequence of completed Draws on the Frame, a
\* data cell is 0x00 if it lies inside a rect whose Draw returned true and
\* 0xFF if it lies in none; in every state, also while a later Draw runs, a
\* cell inside such a rect is 0x00; and a Draw that did not return true
\* leaves the buffer as it found it.
C17_PaintedIffDrawn ==
    ~buffer_.isnull =>
        /\ pc = "idle" =>
              \A c \in Cells :
                  Cell(buffer_, c[1], c[2]) =
                     IF InPainted(c[1], c[2]) THEN kColorWhite ELSE kColorBlack
        /\ \A c \in Cells :
              InPainted(c[1], c[2]) => Cell(buffer_, c[1], c[2]) = kColorWhite
        /\ (call = "Draw" /\ pc \in {"returned", "aborted"} /\ result # "true") =>
              buffer_ = pre_buffer

\* Two Draws of different, overlapping rects have returned true, and a cell
\* of the frame lies in neither.
C17_Witness ==
    /\ pc = "idle"
    /\ draws = 2
    /\ \E r1 \in painted, r2 \in painted :
          /\ r1 # r2
          /\ \E c \in Cells : InRect(r1, c[1], c[2]) /\ InRect(r2, c[1], c[2])
          /\ \E c \in Cells : InRect(r1, c[1], c[2]) /\ ~InRect(r2, c[1], c[2])
    /\ \E c \in Cells : Cell(buffer_, c[1], c[2]) = kColorBlack

\* C18: on a frame whose size H + rows*cols does not wrap, for every rect
\* DrawSanityChecks accepts and every worker count, each run a worker fills
\* starts and ends inside [H, H + rows*cols), and start_p computed in the
\* machine word equals x1 + (j + y1)*rows + H computed over the integers, with
\* no intermediate result reaching 2^w.
C18_WritesInsideData ==
    (pc = "reach" /\ written # <<>>) =>
        /\ GetDataIndex + (ctor.rows * ctor.cols) < WordMod
        /\ \A t \in DOMAIN written : \A off \in written[t] :
              /\ GetDataIndex <= off
              /\ off < GetDataIndex + (ctor.rows * ctor.cols)
        /\ \A j \in 0..(rect.y2 - rect.y1) :
              /\ (j + rect.y1) * ctor.rows < WordMod
              /\ rect.x1 + ((j + rect.y1) * ctor.rows) + GetDataIndex < WordMod
              /\ StartP(rect, j, ctor.rows) =
                    rect.x1 + ((j + rect.y1) * ctor.rows) + GetDataIndex

\* Two workers have filled a rect that ends in the last cell of a frame
\* of one row whose size is the largest the machine word holds.
C18_Witness ==
    /\ pc = "reach"
    /\ Len(written) = 2
    /\ GetDataIndex + (ctor.rows * ctor.cols) = WordMod - 1
    /\ rect.x2 = ctor.rows - 1
    /\ rect.y2 = ctor.cols - 1
    /\ (WordMod - 2) \in written[2]

\* C19: whenever the Frame has its buffer, its allocation holds one byte
\* for every cell of the dimensions its header decodes to, that is
\* H + rows*cols bytes with the product taken over the integers, the header
\* decodes to the constructor's arguments, and no Draw has written past the
\* allocation.
C19_AllocationHoldsEveryCell ==
    ~buffer_.isnull =>
        /\ GetRows(buffer_) = ctor.rows
        /\ GetCols(buffer_) = ctor.cols
        /\ Len(buffer_.mem) =
              GetDataIndex + (GetRows(buffer_) * GetCols(buffer_))
        /\ ~oob

====
